---- MODULE Spec2Model ----
(***************************************************************************)
(* Model of the "Extract CLUs by AOI" script (SUPPORT/extract_CLU_by_AOI). *)
(*                                                                         *)
(* The script asks a web feature service how many CLUs lie in an area of   *)
(* interest (AOI), subdivides the AOI until every piece is under the       *)
(* service's record limit, downloads the CLUs of every piece into a        *)
(* feature class, retries the failed downloads and filters the result.     *)
(*                                                                         *)
(* Environment.  The AOI is a row of NumCells cells; an extent <<lo, hi>>  *)
(* is the polygon made of the cells lo .. hi-1.  The service counts        *)
(* cellCount[c] CLUs in cell c, and CLU number i lies across the cells     *)
(* i-1 and i, so that neighbouring extents share a CLU.  Every HTTP        *)
(* request is answered by one of Responses, chosen by the environment.     *)
(* The feature classes written by SplitByAttributes get names that are     *)
(* not in use (the random number of line 277 is taken to be fresh), and    *)
(* ListFeatureClasses lists the workspace they were written to.            *)
(* One more CLU lies next to the last cell, outside the AOI, and comes     *)
(* with the extents that hold that cell.  CopyFeatures copies the rows     *)
(* selected in the layer, none when none is selected.  The current         *)
(* project has the maps MapNames, each with up to MaxLayers layers.        *)
(*                                                                         *)
(* The last part models start of SUPPORT/extract_CLU_by_Tract, the entry   *)
(* point other scripts call, for a tract with up to MaxFeatures CLUs.      *)
(***************************************************************************)
EXTENDS Integers, Sequences, FiniteSets, TLC

\* ---------------------------------------------------------------- bounds
NumCells == 3
MaxToken == 1
MaxFields == 3
MaxLayers == 2
MaxFeatures == 2

\* ------------------------------------------------------ program constants
InitialSplitSize == 800
DefaultMaxRecordCount == 1000

VARIABLES
    pc,                 \* position of the script
    portalToken,        \* global portalToken['token']
    params,             \* global params (set in __main__, line 543)
    cellCount,          \* service: CLUs counted per cell
    fsMaxRecordCount,   \* service: maxRecordCount of the metadata, 0 = key absent
    fsFields,           \* service: metadata['fields']
    maxRecordCount,     \* global maxRecordCount
    fldsDict,           \* field dictionary returned by createOutputFC
    fcFields,           \* fields added to the new feature class
    cofRet,             \* what createOutputFC returned: "none", "False", "tuple"
    call,               \* a call of submitFSquery: its url and INparams
    queryLog,           \* what that call sent, received and returned
    jsonDict,           \* createListOfJSONextents: dictionary of extents
    subDividedFCList,   \* createListOfJSONextents: work-list of feature classes
    fcIdx,              \* position of "for fc in subDividedFCList"
    splitFCList,        \* split feature classes still to be assessed
    fcExtent,           \* feature classes that exist, with their geometry
    nextOID,            \* next unused feature class name
    splitNum,
    numOfAreas,
    geometryEnvelopes,  \* what createListOfJSONextents returned: "none", "False", "dict"
    reported,           \* history: <<extent, count>> pairs the service reported
    countCalls,         \* history: count queries made by createListOfJSONextents
    initFailed,         \* history: the initial count request failed
    excRaised,          \* history: createListOfJSONextents raised an exception
    cluIdentifierList,
    cluFC,              \* rows of the output feature class (their clu_identifier)
    failedRequests,
    reqIdx,             \* position of the download loops
    firstFailed,        \* history: names whose first-pass download failed
    secondAttempts,     \* history: names re-requested in the second pass
    messages,           \* messages reported by __main__
    finalSteps,         \* the filter, copy and rename steps ran
    workspace,          \* feature classes of outputWS by name, with what each one is
    resultFC,           \* rows of the feature class copied from the selection
    maps,               \* current project: the layer names of each map
    added,              \* history: calls of addDataFromPath on each map
    tract               \* extract_CLU_by_Tract.start: its position, inputs and return

vars == <<pc, portalToken, params, cellCount, fsMaxRecordCount, fsFields,
          maxRecordCount, fldsDict, fcFields, cofRet, call, queryLog, jsonDict,
          subDividedFCList, fcIdx, splitFCList, fcExtent, nextOID, splitNum,
          numOfAreas, geometryEnvelopes, reported, countCalls, initFailed,
          excRaised, cluIdentifierList, cluFC, failedRequests, reqIdx,
          firstFailed, secondAttempts, messages, finalSteps, workspace,
          resultFC, maps, added, tract>>

\* what the steps after the download work on
finalVars == <<workspace, resultFC, maps, added>>

\* the state of extract_CLU_by_AOI.py
aoiVars == <<pc, portalToken, params, cellCount, fsMaxRecordCount, fsFields,
             maxRecordCount, fldsDict, fcFields, cofRet, call, queryLog, jsonDict,
             subDividedFCList, fcIdx, splitFCList, fcExtent, nextOID, splitNum,
             numOfAreas, geometryEnvelopes, reported, countCalls, initFailed,
             excRaised, cluIdentifierList, cluFC, failedRequests, reqIdx,
             firstFailed, secondAttempts, messages, finalSteps, workspace,
             resultFC, maps, added>>

\* ------------------------------------------------------------- geometry
Cells == 0 .. (NumCells - 1)
AOI == <<0, NumCells>>
CellsOf(g) == g[1] .. (g[2] - 1)
Extents == {<<lo, hi>> : lo \in 0 .. NumCells, hi \in 0 .. NumCells}
NoGeom == <<>>
inFC == 0

RECURSIVE SumCells(_, _)
SumCells(f, S) ==
    IF S = {} THEN 0
    ELSE LET c == CHOOSE x \in S : TRUE IN f[c] + SumCells(f, S \ {c})

\* CLU i lies across the cells i-1 and i
CLUs == 1 .. NumCells
CLUcells(i) == {i - 1, i} \cap Cells

\* a CLU next to the last cell and outside the AOI: what the service matches
\* is broader than the AOI (header, lines 28-30) and lies in its own
\* coordinate system (lines 67-73), so this one comes with the extents that
\* hold the last cell
OutsideCLU == NumCells + 1

RECURSIVE SortedSeq(_)
SortedSeq(S) ==
    IF S = {} THEN <<>>
    ELSE LET m == CHOOSE x \in S : \A y \in S : x <= y
         IN <<m>> \o SortedSeq(S \ {m})

\* ------------------------------------------------------- query strings
Absent == "absent"
MetadataURL == "FeatureServer/0"
cluRESTurl == "FeatureServer/0/query"
StringKeys == {"f", "geometryType", "returnCountOnly", "returnGeometry", "outFields"}

\* urlencode({'f': 'json', 'token': ...})
MetaParams(tok) ==
    [f |-> "json", geometry |-> NoGeom, geometryType |-> Absent,
     returnCountOnly |-> Absent, returnGeometry |-> Absent,
     outFields |-> Absent, token |-> tok]

\* urlencode of the count request
CountParams(g, tok) ==
    [f |-> "json", geometry |-> g, geometryType |-> "esriGeometryPolygon",
     returnCountOnly |-> "true", returnGeometry |-> Absent,
     outFields |-> Absent, token |-> tok]

\* urlencode of the geometry request
GeomParams(g, tok) ==
    [f |-> "json", geometry |-> g, geometryType |-> "esriGeometryPolygon",
     returnCountOnly |-> Absent, returnGeometry |-> "true",
     outFields |-> "*", token |-> tok]

\* parse_qsl drops the pairs whose value is blank; dict() keeps the rest
ParseQsl(q) ==
    [k \in DOMAIN q |-> IF k \in StringKeys /\ q[k] = "" THEN Absent ELSE q[k]]

\* requestDict.update(token=...); urlencode(requestDict)
UpdateToken(q, tok) == [q EXCEPT !.token = tok]

\* -------------------------------------------------------------- service
Responses == {"InvalidToken", "Error", "Empty", "HTTPError", "Good"}

ServiceCount(g) == SumCells(cellCount, CellsOf(g))
ServiceFeatures(g) ==
    SortedSeq({i \in CLUs : CLUcells(i) \cap CellsOf(g) # {}}
              \cup (IF NumCells - 1 \in CellsOf(g) THEN {OutsideCLU} ELSE {}))

Results(kind, message, keys, count, features) ==
    [kind |-> kind, message |-> message, keys |-> keys, count |-> count,
     features |-> features]

NoResults == Results("none", "", {}, 0, <<>>)

\* the JSON a request is answered with when the service answers it
Payload(url, p) ==
    IF url = MetadataURL
    THEN Results("ok", "", {"fields", "extent"} \cup
                 (IF fsMaxRecordCount = 0 THEN {} ELSE {"maxRecordCount"}), 0, <<>>)
    ELSE IF p.geometry # NoGeom /\ p.returnCountOnly = "true"
    THEN Results("ok", "", {"count"}, ServiceCount(p.geometry), <<>>)
    ELSE IF p.geometry # NoGeom /\ p.returnGeometry = "true"
    THEN Results("ok", "", {"features"}, 0, ServiceFeatures(p.geometry))
    ELSE Results("ok", "", {"other"}, 0, <<>>)

\* json_loads(resp.read()) for the response r to the request (url, p)
Response(r, url, p) ==
    CASE r = "InvalidToken" -> Results("error", "Invalid Token", {"error"}, 0, <<>>)
      [] r = "Error" -> Results("error", "Unable to complete operation", {"error"}, 0, <<>>)
      [] r = "Empty" -> Results("empty", "", {}, 0, <<>>)
      [] OTHER -> Payload(url, p)

\* 'error' in results.keys() or len(results) == 0
BadResults(results) == "error" \in results.keys \/ results.keys = {}

\* ------------------------------------------------------- submitFSquery
Request(url, p) == [url |-> url, params |-> p]

Outcome(ret, results, sent, tok, INparams, resp) ==
    [ret |-> ret, results |-> results, sent |-> sent, token |-> tok,
     INparams |-> INparams, resp |-> resp]

\* arcpy.GetSigninToken()
GetSigninToken(tok) == tok + 1

\* the query string of the request sent with the regenerated token
RefreshParams(INparams, newToken) == UpdateToken(ParseQsl(params), newToken)

\* lines 168-186: check the results in hand, attempt a second request if bad
SecondAttempt(url, INparams0, INparams, results, sent, tok, r, resp) ==
    IF BadResults(results)
    THEN LET sent2 == Append(sent, Request(url, INparams))
             resp2 == Append(resp, r)
         IN IF r = "HTTPError"
            THEN Outcome("None", NoResults, sent2, tok, INparams0, resp2)
            ELSE LET results2 == Response(r, url, INparams)
                 IN IF BadResults(results2)
                    THEN Outcome("False", NoResults, sent2, tok, INparams0, resp2)
                    ELSE Outcome("dict", results2, sent2, tok, INparams0, resp2)
    ELSE Outcome("dict", results, sent, tok, INparams0, resp)

\* lines 111-202; tok is the global portalToken at the call, rs are the
\* responses of the service to the requests sent
submitFSquery(url, INparams, tok, rs) ==
    LET req1 == Request(url, INparams)
    IN IF rs[1] = "HTTPError"
       THEN Outcome("None", NoResults, <<req1>>, tok, INparams, <<rs[1]>>)
       ELSE LET results == Response(rs[1], url, INparams)
            IN IF "error" \in results.keys /\ results.message = "Invalid Token"
               THEN LET newToken == GetSigninToken(tok)
                        newParams == RefreshParams(INparams, newToken)
                        sent == <<req1, Request(url, newParams)>>
                    IN IF rs[2] = "HTTPError"
                       THEN Outcome("None", NoResults, sent, newToken, INparams,
                                    <<rs[1], rs[2]>>)
                       ELSE SecondAttempt(url, INparams, newParams,
                                          Response(rs[2], url, newParams), sent,
                                          newToken, rs[3], <<rs[1], rs[2]>>)
               ELSE SecondAttempt(url, INparams, INparams, results, <<req1>>,
                                  tok, rs[2], <<rs[1]>>)

\* the responses of the service to the requests of one call; a token is
\* regenerated at most MaxToken times
ResponseSeqs(tok) ==
    {rs \in [1 .. 3 -> Responses] : rs[1] = "InvalidToken" => tok < MaxToken}

\* what a caller sees of a call: the value returned, the global portalToken
\* after it, and (history) the query string of the request that was answered
Seen(o) ==
    [ret |-> o.ret, results |-> o.results, token |-> o.token,
     answered |-> o.sent[Len(o.sent)].params]

\* the outcomes of one call, over the responses the service may give
Outcomes(url, INparams, tok) ==
    {Seen(submitFSquery(url, INparams, tok, rs)) : rs \in ResponseSeqs(tok)}

\* "if not countQuery", "if not geometry": False and None are both falsy
Falsy(o) == o.ret # "dict"

\* ---------------------------------------------------------- dictionaries
\* a Python dict, in insertion order: d[key] = val
DictSet(d, key, val) ==
    IF \E i \in DOMAIN d : d[i].key = key
    THEN [i \in DOMAIN d |-> IF d[i].key = key THEN [key |-> key, val |-> val] ELSE d[i]]
    ELSE Append(d, [key |-> key, val |-> val])

DictKeys(d) == {d[i].key : i \in DOMAIN d}

\* -------------------------------------------------------- createOutputFC
FieldInfo(name, type, length, alias) ==
    [name |-> name, type |-> type, length |-> length, alias |-> alias]

\* the fields a service may describe
FieldUniverse ==
    {FieldInfo("objectid", "esriFieldTypeOID", "", "OBJECTID"),
     FieldInfo("clu_identifier", "esriFieldTypeString", "36", "clu_identifier"),
     FieldInfo("SHAPE_STArea__", "esriFieldTypeDouble", "", "SHAPE_STArea__"),
     FieldInfo("creation_date", "esriFieldTypeDate", "", "creation_date"),
     FieldInfo("calcacres", "esriFieldTypeDouble", "", "calcacres"),
     FieldInfo("shape", "esriFieldTypeGeometry", "", "shape")}

\* the metadata of the CLU service in a run of the whole script
ServiceFields ==
    <<FieldInfo("objectid", "esriFieldTypeOID", "", "OBJECTID"),
      FieldInfo("clu_identifier", "esriFieldTypeString", "36", "clu_identifier"),
      FieldInfo("creation_date", "esriFieldTypeDate", "", "creation_date")>>

fldTypeDict ==
    [t \in {"esriFieldTypeString", "esriFieldTypeDouble", "esriFieldTypeSingle",
            "esriFieldTypeInteger", "esriFieldTypeSmallInteger", "esriFieldTypeDate",
            "esriFieldTypeGUID", "esriFieldTypeGlobalID"} |->
        CASE t = "esriFieldTypeString" -> "TEXT"
          [] t = "esriFieldTypeDouble" -> "DOUBLE"
          [] t = "esriFieldTypeSingle" -> "FLOAT"
          [] t = "esriFieldTypeInteger" -> "LONG"
          [] t = "esriFieldTypeSmallInteger" -> "SHORT"
          [] t = "esriFieldTypeDate" -> "DATE"
          [] OTHER -> "GUID"]

Unbound == "unbound"

\* fieldInfo['type'] == 'esriFieldTypeOID'
IsOIDField(fieldInfo) == fieldInfo.type = "esriFieldTypeOID"

\* mutant: "if fldName.find('SHAPE_ST'):" is true of every name that does not
\* start with SHAPE_ST
IsShapeSTFieldTruthy(fldName) == fldName \notin {"SHAPE_STArea__", "SHAPE_STLength__"}

\* fldName.find('SHAPE_ST') > -1
IsShapeSTField(fldName) == fldName \in {"SHAPE_STArea__", "SHAPE_STLength__"}

\* lines 393-414: the loop over fsFields; fldLength is the local of that name,
\* which the DATE branch leaves as the previous field set it
RECURSIVE CollectFields(_, _, _, _)
CollectFields(fields, i, fieldDict, fldLength) ==
    IF i > Len(fields) THEN [ok |-> TRUE, fieldDict |-> fieldDict]
    ELSE LET fieldInfo == fields[i]
         IN IF IsOIDField(fieldInfo)
            THEN CollectFields(fields, i + 1, fieldDict, fldLength)
            ELSE IF fieldInfo.type \notin DOMAIN fldTypeDict
            THEN [ok |-> FALSE, fieldDict |-> fieldDict]       \* KeyError
            ELSE LET fldType == fldTypeDict[fieldInfo.type]
                     newLength == IF fldType = "TEXT" THEN fieldInfo.length
                                  ELSE IF fldType = "DATE" THEN fldLength
                                  ELSE ""
                 IN IF IsShapeSTField(fieldInfo.name)
                    THEN CollectFields(fields, i + 1, fieldDict, fldLength)
                    ELSE IF newLength = Unbound
                    THEN [ok |-> FALSE, fieldDict |-> fieldDict]   \* UnboundLocalError
                    ELSE CollectFields(fields, i + 1,
                             DictSet(fieldDict, fieldInfo.name,
                                     <<fldType, newLength, fieldInfo.alias>>),
                             newLength)

\* lines 424-436: AddField for every item of fieldDict
AddFields(fieldDict) == [i \in DOMAIN fieldDict |-> fieldDict[i].key]

\* ----------------------------------------------------- output workspace
\* path.basename(input_aoi)
AOIname == "aoi"

\* line 363: CLU_<base name of the AOI>, in outputWS
newFC == "CLU_aoi"

\* line 614: clu_temp, in outputWS
newCLUfc == "clu_temp"

\* what a feature class of the workspace is: left by an earlier run, the
\* download created by createOutputFC, or the copy of the selection
Kinds == {"stale", "download", "filtered"}

\* Delete(fc)
Delete(fcs, fc) == [n \in (DOMAIN fcs) \ {fc} |-> fcs[n]]

\* a feature class written under a name; env.overwriteOutput is True
\* (line 528), so one of that name is replaced
WriteFC(ws, name, kind) ==
    [n \in (DOMAIN ws) \cup {name} |-> IF n = name THEN kind ELSE ws[n]]

\* lines 416-422: if Exists(newFC): Delete(newFC); CreateFeatureclass
CreateOutput(ws) ==
    WriteFC(IF newFC \in DOMAIN ws THEN Delete(ws, newFC) ELSE ws, newFC, "download")

\* lines 347-445; o is what submitFSquery returned for the metadata
createOutputFC(o, fields) ==
    IF o.ret # "dict" \/ "extent" \notin o.results.keys \/ "fields" \notin o.results.keys
    THEN [ret |-> "False", fieldDict |-> <<>>, added |-> <<>>]
    ELSE LET c == CollectFields(fields, 1, <<>>, Unbound)
         IN IF c.ok
            THEN [ret |-> "tuple", fieldDict |-> c.fieldDict, added |-> AddFields(c.fieldDict)]
            ELSE [ret |-> "False", fieldDict |-> <<>>, added |-> <<>>]

\* lines 558-563
MaxRecordCountOf(o) ==
    IF "maxRecordCount" \notin o.results.keys THEN DefaultMaxRecordCount
    ELSE fsMaxRecordCount

\* ------------------------------------------------------------------ Init
CellCounts == {100, 800}
ServiceMaxRecordCounts == {0, 2000}

RECURSIVE SeqsUpTo(_, _)
SeqsUpTo(S, n) ==
    IF n = 0 THEN {<<>>}
    ELSE LET shorter == SeqsUpTo(S, n - 1)
         IN shorter \cup {Append(q, x) : q \in shorter, x \in S}

\* nothing was created by createOutputFC yet
InitOutput ==
    /\ maxRecordCount = 0
    /\ fldsDict = <<>>
    /\ fcFields = <<>>
    /\ cofRet = "none"

\* createListOfJSONextents was not called yet
InitExtents ==
    /\ jsonDict = <<>>
    /\ geometryEnvelopes = "none"
    /\ reported = {}
    /\ countCalls = 0
    /\ initFailed = FALSE
    /\ excRaised = FALSE

\* the locals of createListOfJSONextents, and the feature classes it works on
InitLocals ==
    /\ subDividedFCList = <<>>
    /\ fcIdx = 1
    /\ splitFCList = <<>>
    /\ fcExtent = [n \in {inFC} |-> AOI]
    /\ nextOID = 1
    /\ splitNum = 0
    /\ numOfAreas = 0

\* lines 574-576
InitPasses ==
    /\ cluIdentifierList = <<>>
    /\ cluFC = <<>>
    /\ failedRequests = <<>>
    /\ reqIdx = 1
    /\ firstFailed = {}
    /\ secondAttempts = <<>>
    /\ messages = {}
    /\ finalSteps = FALSE

\* the maps of the current project
MapNames == {"Map", "Map1"}
LayerNames == {AOIname, "other"}

\* feature classes an earlier run of the script left in outputWS
StaleWorkspaces ==
    {[n \in S |-> "stale"] : S \in SUBSET {newFC, newCLUfc}}

\* nothing was filtered or added to a map yet; the project has a map with a
\* layer of the AOI and a map without
InitProject ==
    /\ resultFC = <<>>
    /\ maps = [m \in MapNames |-> IF m = "Map" THEN <<AOIname>> ELSE <<"other">>]
    /\ added = [m \in MapNames |-> 0]

\* start of extract_CLU_by_Tract was not called
InitTract == tract = [pc |-> "idle"]

\* the AOI script was not started
InitAOI ==
    /\ pc = "metadata"
    /\ portalToken = 0
    /\ call = Request(MetadataURL, MetaParams(0))
    /\ cellCount = [c \in Cells |-> 800]
    /\ fsMaxRecordCount = 0
    /\ fsFields = ServiceFields
    /\ params = MetaParams(0)
    /\ queryLog = <<>>
    /\ InitOutput
    /\ InitExtents
    /\ InitLocals
    /\ InitPasses
    /\ workspace = [n \in {newFC, newCLUfc} |-> "stale"]
    /\ InitProject

\* the script's own state before its first step
InitScript ==
    /\ workspace = [n \in {newFC, newCLUfc} |-> "stale"]
    /\ InitProject
    /\ InitTract
    /\ params = MetaParams(0)
    /\ queryLog = <<>>
    /\ InitOutput
    /\ InitExtents
    /\ InitLocals
    /\ InitPasses

\* a run of the script against a service with the fields of the CLU service
Init ==
    /\ InitScript
    /\ pc = "metadata"
    /\ portalToken = 0
    /\ call = Request(MetadataURL, MetaParams(0))
    /\ cellCount \in [Cells -> CellCounts]
    /\ fsMaxRecordCount \in ServiceMaxRecordCounts
    /\ fsFields = ServiceFields

\* ------------------------------------------------------ __main__, 521-565
\* the metadata request, createOutputFC and maxRecordCount; a createOutputFC
\* that returns False makes the unpacking of line 549 raise
GetMetadata ==
    /\ pc = "metadata"
    /\ params' = MetaParams(portalToken)
    /\ \E o \in Outcomes(MetadataURL, MetaParams(portalToken), portalToken) :
          LET c == createOutputFC(o, fsFields)
          IN /\ portalToken' = o.token
             /\ cofRet' = c.ret
             /\ fldsDict' = c.fieldDict
             /\ fcFields' = c.added
             /\ IF c.ret = "tuple"
                THEN /\ maxRecordCount' = MaxRecordCountOf(o)
                     /\ workspace' = CreateOutput(workspace)
                     /\ pc' = "envelopes"
                ELSE /\ maxRecordCount' = maxRecordCount
                     /\ workspace' = workspace
                     /\ pc' = "stopped"
    /\ UNCHANGED <<resultFC, maps, added, tract>>
    /\ UNCHANGED <<call, queryLog, cellCount, fsMaxRecordCount, fsFields, jsonDict,
                   subDividedFCList, fcIdx, splitFCList, fcExtent, nextOID,
                   splitNum, numOfAreas, geometryEnvelopes, reported, countCalls,
                   initFailed, excRaised, cluIdentifierList, cluFC,
                   failedRequests, reqIdx, firstFailed, secondAttempts, messages,
                   finalSteps>>

\* ----------------------------------------------- createListOfJSONextents
\* history: the count the service gave in o, with the extent of the request
\* it answered
ReportedBy(o) ==
    IF o.ret = "dict" /\ "count" \in o.results.keys
    THEN {<<o.answered.geometry, o.results.count>>}
    ELSE {}

\* mutant: the limit is taken one subdivision size too high
WithinLimitLoose(count) == count <= maxRecordCount + InitialSplitSize

\* mutant: a count equal to the limit is taken to exceed it
WithinLimitStrict(count) == count < maxRecordCount

\* countQuery['count'] <= maxRecordCount
WithinLimit(count) == count <= maxRecordCount

\* mutant: a dictionary of one extent is taken to be empty
ReturnOfOffByOne(d) == IF Len(d) < 2 THEN "False" ELSE "dict"

\* lines 335-340
ReturnOf(d) == IF Len(d) < 1 THEN "False" ELSE "dict"

\* line 571: if not geometryEnvelopes: exit()
AfterEnvelopes(ret) == IF ret = "dict" THEN "pass1" ELSE "stopped"

\* lines 223-255 (and 335-340 when the AOI is within the limit)
InitialCount ==
    /\ pc = "envelopes"
    /\ \E o \in Outcomes(cluRESTurl, CountParams(AOI, portalToken), portalToken) :
          /\ portalToken' = o.token
          /\ countCalls' = countCalls + 1
          /\ reported' = reported \cup ReportedBy(o)
          /\ IF Falsy(o)
             THEN \* Failed to get estimate of CLU count
                  /\ initFailed' = TRUE
                  /\ geometryEnvelopes' = "False"
                  /\ pc' = AfterEnvelopes("False")
                  /\ UNCHANGED <<excRaised, jsonDict, subDividedFCList, numOfAreas>>
             ELSE IF "count" \notin o.results.keys
             THEN \* KeyError, line 241
                  /\ excRaised' = TRUE
                  /\ geometryEnvelopes' = "False"
                  /\ pc' = AfterEnvelopes("False")
                  /\ UNCHANGED <<initFailed, jsonDict, subDividedFCList, numOfAreas>>
             ELSE IF WithinLimit(o.results.count)
             THEN /\ jsonDict' = DictSet(jsonDict, inFC, <<AOI, o.results.count>>)
                  /\ geometryEnvelopes' = ReturnOf(jsonDict')
                  /\ pc' = AfterEnvelopes(geometryEnvelopes')
                  /\ UNCHANGED <<initFailed, excRaised, subDividedFCList, numOfAreas>>
             ELSE /\ numOfAreas' = o.results.count \div InitialSplitSize
                  /\ subDividedFCList' = <<inFC>>
                  /\ pc' = "subdivide"
                  /\ UNCHANGED <<initFailed, excRaised, jsonDict, geometryEnvelopes>>
    /\ UNCHANGED <<finalVars, tract>>
    /\ UNCHANGED <<call, queryLog, params, cellCount, fsMaxRecordCount, fsFields, maxRecordCount,
                   fldsDict, fcFields, cofRet, fcIdx, splitFCList, fcExtent,
                   nextOID, splitNum, cluIdentifierList, cluFC, failedRequests,
                   reqIdx, firstFailed, secondAttempts, messages, finalSteps>>

\* SubdividePolygon(fc, ..., 'NUMBER_OF_EQUAL_PARTS', k): the ways to cut the
\* extent g into k pieces
Subdivisions(g, k) ==
    {[i \in 1 .. k |-> <<c[i - 1], c[i]>>] :
        c \in {d \in [0 .. k -> g[1] .. g[2]] :
                  /\ d[0] = g[1]
                  /\ d[k] = g[2]
                  /\ \A i \in 1 .. k : d[i - 1] < d[i]}}

\* lines 264-265
AreasToSplit == IF splitNum > 0 THEN 2 ELSE numOfAreas

\* lines 258-297: one feature class of the work-list is subdivided and its
\* pieces are written out as feature classes of their own
Subdivide ==
    /\ pc = "subdivide"
    /\ fcIdx <= Len(subDividedFCList)
    /\ LET fc == subDividedFCList[fcIdx]
           k == AreasToSplit
       IN /\ numOfAreas' = k
          /\ IF k < 1
             THEN \* SubdividePolygon fails on zero parts
                  /\ excRaised' = TRUE
                  /\ geometryEnvelopes' = "False"
                  /\ pc' = AfterEnvelopes("False")
                  /\ UNCHANGED <<fcExtent, nextOID, splitFCList, splitNum>>
             ELSE \E pieces \in Subdivisions(fcExtent[fc], k) :
                  LET kept == IF splitNum > 0 THEN Delete(fcExtent, fc) ELSE fcExtent
                      names == [i \in 1 .. k |-> nextOID + i - 1]
                  IN /\ fcExtent' = [n \in (DOMAIN kept) \cup {names[i] : i \in 1 .. k} |->
                                        IF n \in DOMAIN kept THEN kept[n]
                                        ELSE pieces[n - nextOID + 1]]
                     /\ nextOID' = nextOID + k
                     /\ splitFCList' = names
                     /\ splitNum' = splitNum + 1
                     /\ pc' = "assess"
                     /\ UNCHANGED <<excRaised, geometryEnvelopes>>
    /\ UNCHANGED <<finalVars, tract>>
    /\ UNCHANGED <<call, queryLog, portalToken, params, cellCount, fsMaxRecordCount, fsFields,
                   maxRecordCount, fldsDict, fcFields, cofRet, jsonDict,
                   subDividedFCList, fcIdx, reported, countCalls, initFailed,
                   cluIdentifierList, cluFC, failedRequests, reqIdx, firstFailed,
                   secondAttempts, messages, finalSteps>>

\* mutant: the feature class is not put back
RecycleDropped(list, splitFC) == list

\* lines 323 and 333: the feature class goes back to the work-list
Recycle(list, splitFC) == Append(list, splitFC)

\* lines 314-319: the count request of a split, sent once more when it failed
\* (with the query string built before the first attempt)
CountAttempts(splitExtent) ==
    LET p == CountParams(splitExtent, portalToken)
    IN UNION {IF Falsy(o1)
              THEN {<<o1, o2>> : o2 \in Outcomes(cluRESTurl, p, o1.token)}
              ELSE {<<o1>>} : o1 \in Outcomes(cluRESTurl, p, portalToken)}

\* lines 300-333: one split feature class is assessed.  A count request for
\* a single cell is answered, so that a piece can always be split again.
Assess ==
    /\ pc = "assess"
    /\ splitFCList # <<>>
    /\ LET splitFC == Head(splitFCList)
           splitExtent == fcExtent[splitFC]
       IN \E os \in CountAttempts(splitExtent) :
          LET o == os[Len(os)]
              more == IF Tail(splitFCList) = <<>> THEN "subdivide" ELSE "assess"
              nextIdx == IF Tail(splitFCList) = <<>> THEN fcIdx + 1 ELSE fcIdx
          IN /\ Falsy(o) => splitExtent[2] - splitExtent[1] > 1
             /\ portalToken' = o.token
             /\ countCalls' = countCalls + Len(os)
             /\ reported' = reported \cup ReportedBy(o)
             /\ IF Falsy(o)
                THEN \* Recycling request
                     /\ subDividedFCList' = Recycle(subDividedFCList, splitFC)
                     /\ splitFCList' = Tail(splitFCList)
                     /\ pc' = more
                     /\ fcIdx' = nextIdx
                     /\ UNCHANGED <<jsonDict, fcExtent, excRaised, geometryEnvelopes>>
                ELSE IF "count" \notin o.results.keys
                THEN \* KeyError, line 327
                     /\ excRaised' = TRUE
                     /\ geometryEnvelopes' = "False"
                     /\ pc' = AfterEnvelopes("False")
                     /\ UNCHANGED <<jsonDict, fcExtent, subDividedFCList,
                                    splitFCList, fcIdx>>
                ELSE IF WithinLimit(o.results.count)
                THEN /\ jsonDict' = DictSet(jsonDict, splitFC,
                                            <<splitExtent, o.results.count>>)
                     /\ fcExtent' = Delete(fcExtent, splitFC)
                     /\ splitFCList' = Tail(splitFCList)
                     /\ pc' = more
                     /\ fcIdx' = nextIdx
                     /\ UNCHANGED <<subDividedFCList, excRaised, geometryEnvelopes>>
                ELSE /\ subDividedFCList' = Recycle(subDividedFCList, splitFC)
                     /\ splitFCList' = Tail(splitFCList)
                     /\ pc' = more
                     /\ fcIdx' = nextIdx
                     /\ UNCHANGED <<jsonDict, fcExtent, excRaised, geometryEnvelopes>>
    /\ UNCHANGED <<finalVars, tract>>
    /\ UNCHANGED <<call, queryLog, params, cellCount, fsMaxRecordCount, fsFields, maxRecordCount,
                   fldsDict, fcFields, cofRet, nextOID, splitNum, numOfAreas,
                   initFailed, cluIdentifierList, cluFC, failedRequests, reqIdx,
                   firstFailed, secondAttempts, messages, finalSteps>>

\* lines 335-340, after the work-list is exhausted
ReturnExtents ==
    /\ pc = "subdivide"
    /\ fcIdx > Len(subDividedFCList)
    /\ geometryEnvelopes' = ReturnOf(jsonDict)
    /\ pc' = AfterEnvelopes(geometryEnvelopes')
    /\ UNCHANGED <<finalVars, tract>>
    /\ UNCHANGED <<call, queryLog, portalToken, params, cellCount, fsMaxRecordCount, fsFields,
                   maxRecordCount, fldsDict, fcFields, cofRet, jsonDict,
                   subDividedFCList, fcIdx, splitFCList, fcExtent, nextOID,
                   splitNum, numOfAreas, reported, countCalls, initFailed,
                   excRaised, cluIdentifierList, cluFC, failedRequests, reqIdx,
                   firstFailed, secondAttempts, messages, finalSteps>>

\* ------------------------------------------------ getCLUgeometryByExtent
\* mutant: the identifier is never found in the list
InListNever(id, list) == FALSE

\* line 483: attributes['clu_identifier'] in cluIdentifierList
InList(id, list) == \E i \in DOMAIN list : list[i] = id

\* lines 473-509 for the first n records: a record whose identifier is in the
\* list is skipped, any other is listed and inserted
RECURSIVE InsertRecords(_, _, _, _)
InsertRecords(features, n, list, rows) ==
    IF n = 0 THEN [list |-> list, rows |-> rows]
    ELSE LET before == InsertRecords(features, n - 1, list, rows)
             id == features[n]
         IN IF InList(id, before.list) THEN before
            ELSE [list |-> Append(before.list, id), rows |-> Append(before.rows, id)]

\* lines 448-517.  The outcomes of one call: o is the answer to the geometry
\* request; the records are inserted up to an exception, which is raised
\* before a record's identifier is looked up or after it was listed (and
\* before its row is inserted)
getCLUgeometryByExtent(JSONextent) ==
    UNION {
        IF Falsy(o) \/ "features" \notin o.results.keys
        THEN {[ok |-> FALSE, token |-> o.token, list |-> cluIdentifierList, rows |-> cluFC]}
        ELSE LET features == o.results.features
                 all == InsertRecords(features, Len(features), cluIdentifierList, cluFC)
             IN {[ok |-> TRUE, token |-> o.token, list |-> all.list, rows |-> all.rows]}
                \cup
                UNION {LET some == InsertRecords(features, n - 1, cluIdentifierList, cluFC)
                           id == features[n]
                       IN {[ok |-> FALSE, token |-> o.token, list |-> some.list,
                            rows |-> some.rows],
                           [ok |-> FALSE, token |-> o.token,
                            list |-> IF InList(id, some.list) THEN some.list
                                     ELSE Append(some.list, id),
                            rows |-> some.rows]} : n \in 1 .. Len(features)}
        : o \in Outcomes(cluRESTurl, GeomParams(JSONextent, portalToken), portalToken)}

\* ------------------------------------------------------ __main__, 574-630
\* lines 578-587: one request of the first pass
FirstPass ==
    /\ pc = "pass1"
    /\ reqIdx <= Len(jsonDict)
    /\ LET envelope == jsonDict[reqIdx]
       IN \E r \in getCLUgeometryByExtent(envelope.val[1]) :
             /\ portalToken' = r.token
             /\ cluIdentifierList' = r.list
             /\ cluFC' = r.rows
             /\ IF r.ok
                THEN UNCHANGED <<failedRequests, firstFailed>>
                ELSE /\ failedRequests' = DictSet(failedRequests, envelope.key, envelope.val)
                     /\ firstFailed' = firstFailed \cup {envelope.key}
    /\ reqIdx' = reqIdx + 1
    /\ UNCHANGED <<finalVars, tract>>
    /\ UNCHANGED <<pc, call, queryLog, params, cellCount, fsMaxRecordCount, fsFields,
                   maxRecordCount, fldsDict, fcFields, cofRet, jsonDict,
                   subDividedFCList, fcIdx, splitFCList, fcExtent, nextOID,
                   splitNum, numOfAreas, geometryEnvelopes, reported, countCalls,
                   initFailed, excRaised, secondAttempts, messages, finalSteps>>

\* line 590: is the second pass entered
SecondPassNeeded(failed) == Len(failed) > 1

\* lines 589-598, after the first pass
CheckFailed ==
    /\ pc = "pass1"
    /\ reqIdx > Len(jsonDict)
    /\ IF SecondPassNeeded(failedRequests)
       THEN IF Len(failedRequests) = Len(jsonDict)
            THEN /\ messages' = messages \cup {"ALL WFS requests failed...exiting!"}
                 /\ pc' = "stopped"
            ELSE /\ messages' = messages \cup {"Attempting to re-download"}
                 /\ pc' = "pass2"
       ELSE /\ pc' = "filter"
            /\ UNCHANGED messages
    /\ reqIdx' = 1
    /\ UNCHANGED <<finalVars, tract>>
    /\ UNCHANGED <<call, queryLog, portalToken, params, cellCount, fsMaxRecordCount,
                   fsFields, maxRecordCount, fldsDict, fcFields, cofRet, jsonDict,
                   subDividedFCList, fcIdx, splitFCList, fcExtent, nextOID,
                   splitNum, numOfAreas, geometryEnvelopes, reported, countCalls,
                   initFailed, excRaised, cluIdentifierList, cluFC, failedRequests,
                   firstFailed, secondAttempts, finalSteps>>

\* lines 600-608: one request of the second pass
SecondPass ==
    /\ pc = "pass2"
    /\ reqIdx <= Len(failedRequests)
    /\ LET envelope == failedRequests[reqIdx]
       IN \E r \in getCLUgeometryByExtent(envelope.val[1]) :
             /\ portalToken' = r.token
             /\ cluIdentifierList' = r.list
             /\ cluFC' = r.rows
             /\ secondAttempts' = Append(secondAttempts, envelope.key)
             /\ messages' = IF r.ok THEN messages
                            ELSE messages \cup {"This reques failed again"}
    /\ reqIdx' = reqIdx + 1
    /\ pc' = IF reqIdx = Len(failedRequests) THEN "filter" ELSE "pass2"
    /\ UNCHANGED <<finalVars, tract>>
    /\ UNCHANGED <<call, queryLog, params, cellCount, fsMaxRecordCount, fsFields,
                   maxRecordCount, fldsDict, fcFields, cofRet, jsonDict,
                   subDividedFCList, fcIdx, splitFCList, fcExtent, nextOID,
                   splitNum, numOfAreas, geometryEnvelopes, reported, countCalls,
                   initFailed, excRaised, failedRequests, firstFailed, finalSteps>>

\* Rename(from, to)
Rename(ws, from, to) ==
    [n \in ((DOMAIN ws) \ {from}) \cup {to} |-> IF n = to THEN ws[from] ELSE ws[n]]

\* mutant: every row is selected
SelectLayerByLocationAll(rows) == rows

\* lines 611-612: the rows that intersect the AOI
SelectLayerByLocation(rows) == SelectSeq(rows, LAMBDA id : CLUcells(id) # {})

\* lines 610-623: the rows intersecting the AOI are copied to clu_temp, the
\* download is deleted and clu_temp takes its name
FinalSteps ==
    /\ pc = "filter"
    /\ finalSteps' = TRUE
    /\ resultFC' = SelectLayerByLocation(cluFC)
    /\ LET copied == WriteFC(workspace, newCLUfc, "filtered")
           deleted == Delete(copied, newFC)
       IN workspace' = Rename(deleted, newCLUfc, newFC)
    /\ pc' = "addToMap"
    /\ UNCHANGED <<maps, added, tract>>
    /\ UNCHANGED <<call, queryLog, portalToken, params, cellCount, fsMaxRecordCount,
                   fsFields, maxRecordCount, fldsDict, fcFields, cofRet, jsonDict,
                   subDividedFCList, fcIdx, splitFCList, fcExtent, nextOID,
                   splitNum, numOfAreas, geometryEnvelopes, reported, countCalls,
                   initFailed, excRaised, cluIdentifierList, cluFC, failedRequests,
                   reqIdx, firstFailed, secondAttempts, messages>>

\* mutant: the loop over the layers goes on after a layer was found
RECURSIVE ListLayersLoopNoBreak(_, _)
ListLayersLoopNoBreak(layers, i) ==
    IF i > Len(layers) THEN 0
    ELSE IF layers[i] = AOIname THEN 1 + ListLayersLoopNoBreak(layers, i + 1)
    ELSE ListLayersLoopNoBreak(layers, i + 1)

\* lines 627-630: the calls of addDataFromPath for one map, from layer i on
RECURSIVE ListLayersLoop(_, _)
ListLayersLoop(layers, i) ==
    IF i > Len(layers) THEN 0
    ELSE IF layers[i] = AOIname THEN 1
    ELSE ListLayersLoop(layers, i + 1)

\* addDataFromPath(cluFC), n times: each call puts a layer named after the
\* feature class on top of the map
RECURSIVE AddDataFromPath(_, _)
AddDataFromPath(layers, n) ==
    IF n = 0 THEN layers ELSE AddDataFromPath(<<newFC>> \o layers, n - 1)

\* lines 625-630: every map of the current project is gone through; without
\* a current project ArcGISProject raises and the script ends in errorMsg
AddToMap ==
    /\ pc = "addToMap"
    /\ \/ /\ maps' = [m \in DOMAIN maps |->
                         AddDataFromPath(maps[m], ListLayersLoop(maps[m], 1))]
          /\ added' = [m \in DOMAIN maps |-> added[m] + ListLayersLoop(maps[m], 1)]
          /\ pc' = "done"
       \/ /\ pc' = "stopped"
          /\ UNCHANGED <<maps, added>>
    /\ UNCHANGED <<workspace, resultFC, tract>>
    /\ UNCHANGED <<call, queryLog, portalToken, params, cellCount, fsMaxRecordCount,
                   fsFields, maxRecordCount, fldsDict, fcFields, cofRet, jsonDict,
                   subDividedFCList, fcIdx, splitFCList, fcExtent, nextOID,
                   splitNum, numOfAreas, geometryEnvelopes, reported, countCalls,
                   initFailed, excRaised, cluIdentifierList, cluFC, failedRequests,
                   reqIdx, firstFailed, secondAttempts, messages, finalSteps>>

\* the script up to the return of createListOfJSONextents (lines 521-572)
Next ==
    \/ GetMetadata
    \/ InitialCount
    \/ Subdivide
    \/ Assess
    \/ ReturnExtents

Spec == Init /\ [][Next]_vars

\* ------------------------------------------------ the download on its own
\* the ways to cut the AOI into pieces, from left to right
Partitions == UNION {Subdivisions(AOI, k) : k \in 1 .. NumCells}

\* the dictionaries createListOfJSONextents returns: the whole AOI under its
\* base name when it is within the limit, and otherwise pieces of the AOI,
\* each within the limit, no fewer than the first subdivision makes
ReturnedDicts(counts, limit) ==
    {[i \in DOMAIN P |-> [key |-> IF Len(P) = 1 THEN inFC ELSE i,
                          val |-> <<P[i], SumCells(counts, CellsOf(P[i]))>>]] :
        P \in {Q \in Partitions :
                 /\ \A i \in DOMAIN Q : SumCells(counts, CellsOf(Q[i])) <= limit
                 /\ \/ Len(Q) = 1
                    \/ /\ SumCells(counts, Cells) > limit
                       /\ Len(Q) >= SumCells(counts, Cells) \div InitialSplitSize}}

\* the script after createListOfJSONextents returned a dictionary (line 574)
InitDownload ==
    /\ pc = "pass1"
    /\ portalToken = 0
    /\ params = MetaParams(0)
    /\ call = Request(MetadataURL, MetaParams(0))
    /\ queryLog = <<>>
    /\ cellCount \in [Cells -> CellCounts]
    /\ fsMaxRecordCount \in ServiceMaxRecordCounts
    /\ fsFields = ServiceFields
    /\ maxRecordCount = IF fsMaxRecordCount = 0 THEN DefaultMaxRecordCount
                        ELSE fsMaxRecordCount
    /\ fldsDict = CollectFields(ServiceFields, 1, <<>>, Unbound).fieldDict
    /\ fcFields = AddFields(fldsDict)
    /\ cofRet = "tuple"
    /\ jsonDict \in ReturnedDicts(cellCount, maxRecordCount)
    /\ geometryEnvelopes = "dict"
    /\ reported = {jsonDict[i].val : i \in DOMAIN jsonDict}
    /\ countCalls = 1
    /\ initFailed = FALSE
    /\ excRaised = FALSE
    /\ InitLocals
    /\ InitPasses
    /\ workspace = CreateOutput([n \in {newFC, newCLUfc} |-> "stale"])
    /\ InitProject
    /\ InitTract

NextDownload ==
    \/ FirstPass
    \/ CheckFailed
    \/ SecondPass
    \/ FinalSteps
    \/ AddToMap

SpecDownload == InitDownload /\ [][NextDownload]_vars

\* ------------------------------------------ the steps after the download
\* the script after createListOfJSONextents returned the AOI as its one
\* extent, run in any workspace and with any layers in the maps of the project
InitFinal ==
    /\ pc = "pass1"
    /\ portalToken = 0
    /\ params = MetaParams(0)
    /\ call = Request(MetadataURL, MetaParams(0))
    /\ queryLog = <<>>
    /\ cellCount = [c \in Cells |-> 100]
    /\ fsMaxRecordCount = 0
    /\ fsFields = ServiceFields
    /\ maxRecordCount = DefaultMaxRecordCount
    /\ fldsDict = CollectFields(ServiceFields, 1, <<>>, Unbound).fieldDict
    /\ fcFields = AddFields(fldsDict)
    /\ cofRet = "tuple"
    /\ jsonDict \in ReturnedDicts(cellCount, maxRecordCount)
    /\ geometryEnvelopes = "dict"
    /\ reported = {jsonDict[i].val : i \in DOMAIN jsonDict}
    /\ countCalls = 1
    /\ initFailed = FALSE
    /\ excRaised = FALSE
    /\ InitLocals
    /\ InitPasses
    /\ workspace \in {CreateOutput(ws) : ws \in StaleWorkspaces}
    /\ resultFC = <<>>
    /\ maps \in [MapNames -> SeqsUpTo(LayerNames, MaxLayers)]
    /\ added = [m \in MapNames |-> 0]
    /\ InitTract

\* with one extent no second pass is entered (line 590)
NextFinal ==
    \/ FirstPass
    \/ CheckFailed
    \/ FinalSteps
    \/ AddToMap

SpecFinal == InitFinal /\ [][NextFinal]_vars

\* --------------------------------------------- submitFSquery on its own
\* the extents a request may carry
RequestExtents == {g \in Extents : g[1] < g[2]}

\* the calls the script makes: the metadata request, count requests and
\* geometry requests, built with the token of the time
CallsWith(tok) ==
    {Request(MetadataURL, MetaParams(tok))}
    \cup {Request(cluRESTurl, CountParams(g, tok)) : g \in RequestExtents}
    \cup {Request(cluRESTurl, GeomParams(g, tok)) : g \in RequestExtents}

\* a call of submitFSquery at any point of the script: the global params is
\* the query string of the metadata request (line 543)
InitQuery ==
    /\ InitScript
    /\ pc = "query"
    /\ portalToken \in 0 .. MaxToken
    /\ call \in UNION {CallsWith(tok) : tok \in 0 .. portalToken}
    /\ cellCount = [c \in Cells |-> 800]
    /\ fsMaxRecordCount \in ServiceMaxRecordCounts
    /\ fsFields = ServiceFields

\* lines 111-202, with everything the call sent and received on record
SubmitQuery ==
    /\ pc = "query"
    /\ \E rs \in ResponseSeqs(portalToken) :
          LET o == submitFSquery(call.url, call.params, portalToken, rs)
          IN /\ queryLog' = <<o>>
             /\ portalToken' = o.token
    /\ pc' = "queried"
    /\ UNCHANGED <<finalVars, tract>>
    /\ UNCHANGED <<call, params, cellCount, fsMaxRecordCount, fsFields,
                   maxRecordCount, fldsDict, fcFields, cofRet, jsonDict,
                   subDividedFCList, fcIdx, splitFCList, fcExtent, nextOID,
                   splitNum, numOfAreas, geometryEnvelopes, reported, countCalls,
                   initFailed, excRaised, cluIdentifierList, cluFC, failedRequests,
                   reqIdx, firstFailed, secondAttempts, messages, finalSteps>>

SpecQuery == InitQuery /\ [][SubmitQuery]_vars

\* --------------------------------------------- createOutputFC on its own
\* the metadata request and createOutputFC, for a service with any fields
InitFC ==
    /\ InitScript
    /\ pc = "metadata"
    /\ portalToken = 0
    /\ call = Request(MetadataURL, MetaParams(0))
    /\ cellCount = [c \in Cells |-> 800]
    /\ fsMaxRecordCount \in ServiceMaxRecordCounts
    /\ fsFields \in SeqsUpTo(FieldUniverse, MaxFields)

SpecFC == InitFC /\ [][GetMetadata]_vars

\* ============================================== extract_CLU_by_Tract.py
\* Line 363 is taken to bind the token dictionary it spells out; its number
\* 1635866288L is written as a Python 2 long.

\* submitFSquery (lines 4-108) for the answers rs of the service, with
\* bArcGISPro set.  An 'Invalid Token' answer leads to parseQueryString(params)
\* (line 46), where params is no global of this module: the NameError is
\* caught at line 106 and False returned.  The HTTPError handler (lines 93-104)
\* returns nothing.
TractSubmitFSquery(rs) ==
    IF rs[1] = "HTTPError" THEN "None"
    ELSE IF rs[1] = "InvalidToken" THEN "False"
    ELSE IF rs[1] \in {"Error", "Empty"}
         THEN IF rs[2] = "HTTPError" THEN "None"
              ELSE IF rs[2] = "Good" THEN "dict"
              ELSE "False"
    ELSE "dict"

\* the answers of the service to one call: a second one where it is asked for
TractResponseSeqs ==
    {<<r>> : r \in {"HTTPError", "InvalidToken", "Good"}}
    \cup {<<r, q>> : r \in {"Error", "Empty"}, q \in Responses}

\* not fsMetadata, not geometry
TractFalsy(ret) == ret \in {"False", "None"}

\* start(state, county, trctNmbr, outSR, outWS, addCLUtoSoftware) is entered
\* (line 294): the spatial reference given, the product the script runs in,
\* whether the project has an active map, and who called
StartCalls ==
    [pc : {"start"},
     outSR : {"", "wkt", "badwkt", "object"},
     product : {"ArcGISPro", "Desktop"},
     activeMap : BOOLEAN,
     addCLUtoSoftware : BOOLEAN,
     fsMetadata : {"none"},
     cluFC : {"absent"},
     rows : {0},
     responses : {<<>>},
     ret : {"running"},
     failure : {"none"}]

\* line 492-493: except: errorMsg(), and what falls off the end of start
ReturnNone(t, why) == [t EXCEPT !.pc = "returned", !.ret = "None", !.failure = why]

\* line 429
ReturnFalse(t, why) ==
    [t EXCEPT !.pc = "returned", !.ret = "False", !.failure = why,
              !.cluFC = "deleted"]

\* lines 420-429: exit() for a run from ArcGIS Pro, which the except of line
\* 492 catches as it catches everything, return False otherwise
QueryFailed(t, why) ==
    IF t.addCLUtoSoftware
    THEN [ReturnNone(t, why) EXCEPT !.cluFC = "deleted"]
    ELSE ReturnFalse(t, why)

\* lines 296-370: the spatial reference and the product.  loadFromString
\* raises for a string that is no spatial reference; without the product
\* ArcGISPro urllibEncode is never bound and line 374 raises; without a
\* spatial reference and an active map exit() is called (line 353)
SetUp ==
    /\ tract.pc = "start"
    /\ tract' = IF tract.outSR = "badwkt" THEN ReturnNone(tract, "spatialReference")
                ELSE IF tract.product # "ArcGISPro" THEN ReturnNone(tract, "product")
                ELSE IF tract.outSR = "" /\ ~tract.activeMap
                     THEN ReturnNone(tract, "noActiveMap")
                ELSE [tract EXCEPT !.pc = "metadata"]
    /\ UNCHANGED aoiVars

\* lines 372-400: the metadata request and createOutputFC, which returns
\* False for metadata that is False or None and when the feature class
\* cannot be created; line 381 unpacks what it returned
TractMetadata ==
    /\ tract.pc = "metadata"
    /\ \E rs \in TractResponseSeqs, created \in BOOLEAN :
          LET m == TractSubmitFSquery(rs)
              t == [tract EXCEPT !.fsMetadata = m, !.responses = rs]
          IN tract' = IF TractFalsy(m) THEN ReturnNone(t, "metadata")
                      ELSE IF ~created THEN ReturnNone(t, "createFC")
                      ELSE [t EXCEPT !.pc = "query", !.cluFC = "created"]
    /\ UNCHANGED aoiVars

\* lines 402-429 with getCLUgeometryByTractQuery (lines 212-291): the query
\* for the tract is answered with n features, of which the first k are
\* in the feature class when an exception is raised, if one is
TractQuery ==
    /\ tract.pc = "query"
    /\ \E rs \in TractResponseSeqs, n \in 0 .. MaxFeatures :
          LET g == TractSubmitFSquery(rs)
              t == [tract EXCEPT !.responses = rs]
          IN IF TractFalsy(g) THEN tract' = QueryFailed(t, "query")
             ELSE IF n = 0 THEN tract' = QueryFailed(t, "noFeatures")
             ELSE \/ tract' = [t EXCEPT !.pc = "project", !.rows = n]
                  \/ \E k \in 0 .. (n - 1) :
                        tract' = QueryFailed([t EXCEPT !.rows = k], "insert")
    /\ UNCHANGED aoiVars

\* lines 431-490: the feature class is projected, deleted and the projected
\* one takes its name; a caller that is a script gets the path back, a run
\* from ArcGIS Pro adds the layer and falls off the end
Project ==
    /\ tract.pc = "project"
    /\ \E projected \in BOOLEAN :
          tract' = IF ~projected THEN ReturnNone(tract, "projection")
                   ELSE IF tract.addCLUtoSoftware
                        THEN [ReturnNone(tract, "none") EXCEPT !.cluFC = "projected"]
                   ELSE [tract EXCEPT !.pc = "returned", !.ret = "cluFC",
                                      !.cluFC = "projected"]
    /\ UNCHANGED aoiVars

InitStart ==
    /\ InitAOI
    /\ tract \in StartCalls

NextTract ==
    \/ SetUp
    \/ TractMetadata
    \/ TractQuery
    \/ Project

SpecTract == InitStart /\ [][NextTract]_vars

\* ================================================================ claims
CellsCovered(S) == UNION {CellsOf(g) : g \in S}
RecordedExtents == {jsonDict[i].val[1] : i \in DOMAIN jsonDict}
WaitingFrom(n) ==
    {fcExtent[subDividedFCList[i]] : i \in {j \in DOMAIN subDividedFCList : j >= n}}
PendingSplits == {fcExtent[splitFCList[i]] : i \in DOMAIN splitFCList}
TimesIn(x, q) == Cardinality({i \in DOMAIN q : q[i] = x})

\* C1: every entry [extent, count] of the dictionary of extents holds a count
\* that the service reported for exactly that extent and that is at most
\* maxRecordCount; no extent reported over the limit is in the dictionary.
C1_UnderLimit ==
    \A i \in DOMAIN jsonDict :
        /\ jsonDict[i].val \in reported
        /\ jsonDict[i].val[2] <= maxRecordCount
        /\ jsonDict[i].val[2] = ServiceCount(jsonDict[i].val[1])

\* C1 witness: a dictionary of several splits was returned
C1_Witness == geometryEnvelopes = "dict" /\ Len(jsonDict) >= 2

C3_RefreshKeepsQuery ==
    \A k \in DOMAIN queryLog :
        LET o == queryLog[k]
        IN o.resp[1] = "InvalidToken" =>
              /\ Len(o.sent) >= 2
              /\ o.sent[2].url = call.url
              /\ o.token > call.params.token
              /\ o.sent[2].params = [call.params EXCEPT !.token = o.token]

\* C4: if the response in hand after the optional token refresh has the key
\* 'error' or is empty, exactly one further request is sent with the current
\* parameters, and the function returns that response if it is good and False
\* otherwise; a good response in hand is returned with no further request.
C4_SecondAttempt ==
    \A k \in DOMAIN queryLog :
        LET o == queryLog[k]
            base == IF o.resp[1] = "InvalidToken" THEN 2 ELSE 1
        IN (Len(o.resp) >= base /\ o.resp[base] # "HTTPError") =>
              LET inHand == Response(o.resp[base], o.sent[base].url, o.sent[base].params)
              IN IF "error" \in inHand.keys \/ inHand.keys = {}
                 THEN /\ Len(o.sent) = base + 1
                      /\ o.sent[base + 1] = o.sent[base]
                      /\ LET r == o.resp[base + 1]
                             answer == Response(r, o.sent[base].url, o.sent[base].params)
                         IN IF r # "HTTPError" /\ "error" \notin answer.keys
                                               /\ answer.keys # {}
                            THEN o.ret = "dict" /\ o.results = answer
                            ELSE o.ret = "False"
                 ELSE /\ Len(o.sent) = base
                      /\ o.ret = "dict"
                      /\ o.results = inHand

\* C5: provided not all extents failed, every extent whose download failed in
\* the first pass is in failedRequests and is re-requested exactly once in the
\* second pass, for any number (one or more) of failed extents.
C5_FailedRetriedOnce ==
    (pc \in {"filter", "done"} /\ Cardinality(firstFailed) < Len(jsonDict)) =>
        \A key \in firstFailed :
            /\ key \in DictKeys(failedRequests)
            /\ TimesIn(key, secondAttempts) = 1

\* C6: if every extent fails in the first pass (for any number of extents,
\* exactly one included), no second attempt is made, 'ALL WFS requests
\* failed...exiting!' is reported and the script stops without the filter,
\* copy, rename and add-to-map steps.
C6_AllFailedStops ==
    (geometryEnvelopes = "dict" /\ firstFailed = DictKeys(jsonDict)) =>
        /\ secondAttempts = <<>>
        /\ ~finalSteps
        /\ pc \in {"pass1", "stopped"}
        /\ pc = "stopped" => "ALL WFS requests failed...exiting!" \in messages

\* C7: the output feature class never holds two rows with the same
\* clu_identifier, and every row's identifier is in cluIdentifierList.
C7_UniqueCLUs ==
    /\ \A i, j \in DOMAIN cluFC : i # j => cluFC[i] # cluFC[j]
    /\ \A i \in DOMAIN cluFC : \E j \in DOMAIN cluIdentifierList :
           cluIdentifierList[j] = cluFC[i]

\* C7 witness: after a second pass, with overlapping extents downloaded and a
\* call that failed after listing an identifier
C7_Witness ==
    /\ pc = "done"
    /\ secondAttempts # <<>>
    /\ Len(cluFC) >= 2
    /\ Len(cluIdentifierList) > Len(cluFC)

\* C8: createListOfJSONextents returns False if and only if the initial count
\* request failed, an exception occurred or the dictionary is empty at the
\* end; in every other case it returns the non-empty dictionary.
C8_ReturnsFalseIff ==
    geometryEnvelopes # "none" =>
        /\ geometryEnvelopes = "False" <=> (initFailed \/ excRaised \/ jsonDict = <<>>)
        /\ geometryEnvelopes = "dict" => jsonDict # <<>>

\* C8 witness: False was returned for an exception, with extents recorded
C8_Witness == geometryEnvelopes = "False" /\ excRaised /\ jsonDict # <<>>

\* C9: if the count reported for the whole AOI is at most maxRecordCount,
\* nothing is subdivided, no further count request is sent, and the dictionary
\* returned has exactly one entry, keyed by the AOI's base name, holding the
\* AOI geometry and that count.
C9_NoSplitUnderLimit ==
    \A r \in reported :
        (r[1] = AOI /\ r[2] <= maxRecordCount) =>
            /\ splitNum = 0
            /\ nextOID = 1
            /\ countCalls = 1
            /\ geometryEnvelopes = "dict"
            /\ jsonDict = <<[key |-> inFC, val |-> r]>>

\* C9 witness: a dictionary was returned for an AOI within the limit
C9_Witness == geometryEnvelopes = "dict" /\ splitNum = 0 /\ countCalls = 1

FieldNames(q) == {q[i] : i \in DOMAIN q}
SkippedByDesign(fieldInfo) ==
    \/ fieldInfo.type = "esriFieldTypeOID"
    \/ fieldInfo.name \in {"SHAPE_STArea__", "SHAPE_STLength__"}

RowsOf(rows) == {rows[i] : i \in DOMAIN rows}

\* the layers of a map that carry a name
LayersNamed(layers, name) == {i \in DOMAIN layers : layers[i] = name}

\* C11: when the script has completed normally, outputWS holds one feature
\* class named CLU_<base name of the AOI>, which is the copy of the selection
\* and holds the downloaded CLUs that intersect the AOI and no other; the
\* unfiltered download is gone and nothing is named clu_temp
C11_FinalOutput ==
    pc = "done" =>
        /\ newFC \in DOMAIN workspace
        /\ {n \in DOMAIN workspace : workspace[n] = "filtered"} = {newFC}
        /\ \A n \in DOMAIN workspace : workspace[n] # "download"
        /\ newCLUfc \notin DOMAIN workspace
        /\ RowsOf(resultFC) = RowsOf(cluFC) \cap CLUs
        /\ Cardinality(RowsOf(resultFC)) = Len(resultFC)

\* a completed run whose download held a CLU outside the AOI next to CLUs
\* inside it
C11_Witness ==
    /\ pc = "done"
    /\ OutsideCLU \in RowsOf(cluFC)
    /\ resultFC # <<>>

\* C12: after a normal run the result was added to a map once if the map
\* has a layer named like the AOI, however many such layers it has, and was
\* not added to it otherwise
C12_AddedIffLayer ==
    pc = "done" =>
        \A m \in MapNames :
            /\ added[m] = IF LayersNamed(maps[m], AOIname) # {} THEN 1 ELSE 0
            /\ Cardinality(LayersNamed(maps[m], newFC)) = added[m]

\* a completed run with a map of two layers named like the AOI and a map
\* with none
C12_Witness ==
    /\ pc = "done"
    /\ \E m \in MapNames : Cardinality(LayersNamed(maps[m], AOIname)) = 2 /\ added[m] = 1
    /\ \E m \in MapNames : LayersNamed(maps[m], AOIname) = {} /\ added[m] = 0

\* C13: start called with addCLUtoSoftware=False returns the path of the
\* projected feature class when nothing failed and False when anything
\* failed, and nothing else.
C13_ReturnContract ==
    (tract.pc = "returned" /\ ~tract.addCLUtoSoftware) =>
        IF tract.failure = "none"
        THEN tract.ret = "cluFC" /\ tract.cluFC = "projected"
        ELSE tract.ret = "False"
====
